---- MODULE Spec2Model ----
(***************************************************************************)
(* Model of the Ruby binding of gumath (ext/ruby_gumath/ruby_gumath.c):    *)
(* the call of a gufunc object (argument checks, kernel selection, output  *)
(* planning, kernel application, resolution of abstract outputs, return)   *)
(* and the max_threads configuration methods.                              *)
(*                                                                         *)
(* The handler Gumath_GufuncObject_call is modelled statement by statement *)
(* with a program counter.  The library routines it calls (gm_select,      *)
(* gm_apply, gm_apply_thread and the kernels) are not part of the source   *)
(* file; they are modelled from sections 4.1 to 4.4 of the specification.  *)
(* C indices are kept: arrays are functions over 0..n-1.                   *)
(***************************************************************************)
EXTENDS Integers, Sequences, FiniteSets, TLC

(* ------------------------------------------------------------------ *)
(* Bounds of the model.                                               *)
(* ------------------------------------------------------------------ *)

\* Capacity of stack[], in_types[] and result[] (128 in ndtypes.h; scaled down).
NDT_MAX_ARGS == 4

\* Largest outer length of an argument buffer.
MaxLen == 3

\* Largest value max_threads takes.
MaxThreads == 3

Min(a, b) == IF a < b THEN a ELSE b

Max(a, b) == IF a < b THEN b ELSE a

(* ------------------------------------------------------------------ *)
(* Types, buffers and argument values.                                *)
(* ------------------------------------------------------------------ *)

DTypes == {"f64", "i64"}

\* A type descriptor (ndt_t): element type, outer length, concrete or abstract.
Type(dt, len, conc) == [dt |-> dt, len |-> len, conc |-> conc]

NoType == Type("none", 0, FALSE)

\* An xnd_t view.  k: "uninit" (never written), "err" (xnd_error), "in" (a view
\* of a caller's buffer), "out" (a view of the buffer of output idx).
Xnd(k, type, base, idx) == [k |-> k, type |-> type, base |-> base, idx |-> idx]

Uninit == Xnd("uninit", NoType, 0, 0)

xnd_error == Xnd("err", NoType, 0, 0)

\* A Ruby argument: an XND object (with its xnd_t) or some other object.
\* rel: how often the call has released the caller's buffer.
XndArg(dt, len) ==
  [isxnd |-> TRUE, xnd |-> Xnd("in", Type(dt, len, TRUE), 1, 0), rel |-> 0]

NotXnd == [isxnd |-> FALSE, xnd |-> Uninit, rel |-> 0]

\* The data of the caller's buffers: element u of argument j is (u+1)*10^j, so
\* [1,2,3,..], [10,20,30,..]; a buffer of length 1 is read at element 0 for
\* every outer unit (broadcast).
RECURSIVE Pow10(_)
Pow10(j) == IF j = 0 THEN 1 ELSE 10 * Pow10(j - 1)

InputAt(x, u) == x.base * (Min(u, x.type.len - 1) + 1)

(* ------------------------------------------------------------------ *)
(* Kernel table and selection (gm_tbl_t, gm_select): library code,    *)
(* modelled from sections 3, 4.1 and 4.2 of the specification.        *)
(* ------------------------------------------------------------------ *)

\* A C array written as a tuple: element i of Arr(s) is s[i+1].
Arr(s) == [i \in 0..(Len(s) - 1) |-> s[i + 1]]

\* A KernelEntry: declared input element types, declared outputs (element type,
\* concrete or abstract), whether the signature permits broadcasting, and whether
\* the kernel may be applied by several threads.
Kernel(id, in, out, bcast, thr) ==
  [id |-> id, in |-> Arr(in), nin |-> Len(in), out |-> Arr(out), nout |-> Len(out),
   bcast |-> bcast, thr |-> thr]

NoKernel == [id |-> 0, in |-> Arr(<<>>), nin |-> 0, out |-> Arr(<<>>), nout |-> 0,
             bcast |-> FALSE, thr |-> FALSE]

OutDecl(dt, conc) == [dt |-> dt, conc |-> conc]

Names == {"add", "pair", "stat", "gen", "does_not_exist"}

\* The overload sets, in registration order.
KernelTable ==
  [n \in Names |->
     CASE n = "add" ->
            << Kernel(1, <<"f64", "f64">>, <<OutDecl("f64", TRUE)>>, FALSE, TRUE),
               Kernel(2, <<"f64", "f64">>, <<OutDecl("f64", TRUE)>>, TRUE, TRUE),
               Kernel(3, <<"i64", "i64">>, <<OutDecl("i64", TRUE)>>, TRUE, TRUE) >>
       [] n = "pair" ->
            << Kernel(4, <<"i64">>, <<OutDecl("i64", TRUE), OutDecl("i64", TRUE)>>,
                      FALSE, TRUE) >>
       [] n = "stat" ->
            << Kernel(5, <<"f64">>, <<OutDecl("f64", TRUE), OutDecl("f64", FALSE)>>,
                      FALSE, FALSE) >>
       [] n = "gen" ->
            << Kernel(6, <<>>, <<OutDecl("i64", FALSE), OutDecl("i64", FALSE),
                                 OutDecl("i64", FALSE), OutDecl("i64", FALSE)>>,
                      FALSE, FALSE) >>
       [] OTHER -> << >> ]

ArgValues == {XndArg(dt, len) : dt \in DTypes, len \in 1..MaxLen} \cup {NotXnd}

\* The largest number of inputs a registered kernel takes.
MaxNin ==
  LET S == UNION {{KernelTable[n][c].nin : c \in DOMAIN KernelTable[n]} : n \in Names}
  IN  CHOOSE m \in S : \A x \in S : x <= m

\* The argument lists of the calls: every list of at most MaxNin values, and
\* longer lists of one value each, up to one more than NDT_MAX_ARGS.
ArgLists ==
  UNION {[0..(n - 1) -> ArgValues] : n \in 0..MaxNin}
    \cup {[j \in 0..(n - 1) |-> v] : n \in (MaxNin + 1)..(NDT_MAX_ARGS + 1),
                                     v \in {XndArg("f64", 1), NotXnd}}

\* lookup(name): the overload set of a name, empty for an unknown name.
Lookup(name) == KernelTable[name]

\* The common outer length of n input types (1 when nothing is iterated).
RECURSIVE OuterLen(_, _)
OuterLen(types, n) ==
  IF n = 0 THEN 1 ELSE Max(types[n - 1].len, OuterLen(types, n - 1))

\* unify(declared signature, concrete input types): "exact", "bcast" or "none".
Unify(k, types, n) ==
  LET L == OuterLen(types, n)
  IN  IF n # k.nin \/ \E j \in 0..(n - 1) : types[j].dt # k.in[j]
        THEN "none"
      ELSE IF \A j \in 0..(n - 1) : types[j].len = L
        THEN "exact"
      ELSE IF k.bcast /\ \A j \in 0..(n - 1) : types[j].len \in {1, L}
        THEN "bcast"
      ELSE "none"

\* The position (from 1) of the first candidate at or after c that unifies, 0 if none.
RECURSIVE FirstUnify(_, _, _, _)
FirstUnify(cands, types, n, c) ==
  IF c > Len(cands) THEN 0
  ELSE IF Unify(cands[c], types, n) # "none" THEN c
  ELSE FirstUnify(cands, types, n, c + 1)

\* The position of the last candidate at or before c that unifies, 0 if none.
RECURSIVE LastUnify(_, _, _, _)
LastUnify(cands, types, n, c) ==
  IF c < 1 THEN 0
  ELSE IF Unify(cands[c], types, n) # "none" THEN c
  ELSE LastUnify(cands, types, n, c - 1)

\* Selection that prefers the candidate registered last.
Pick_Last(cands, types, n) == LastUnify(cands, types, n, Len(cands))

\* Tie-break policy of selection: the candidate that is picked (0 if none).
Pick(cands, types, n) == FirstUnify(cands, types, n, 1)

\* ndt_apply_spec_t.  flags: the selected kernel may be applied by several threads.
ApplySpec(nb, broadcast, nout, out, outer, flags) ==
  [nbroadcast |-> nb, broadcast |-> broadcast, nout |-> nout, out |-> out,
   outer_dims |-> outer, flags |-> flags]

ndt_apply_spec_empty == ApplySpec(0, Arr(<<>>), 0, Arr(<<>>), 0, FALSE)

\* The ApplySpec of kernel k for the given input types.
SpecFor(k, types, n) ==
  LET L  == OuterLen(types, n)
      bc == Unify(k, types, n) = "bcast"
  IN  ApplySpec(IF bc THEN n ELSE 0,
                IF bc THEN [j \in 0..(n - 1) |-> Type(types[j].dt, L, TRUE)]
                      ELSE Arr(<<>>),
                k.nout,
                [i \in 0..(k.nout - 1) |->
                   IF k.out[i].conc THEN Type(k.out[i].dt, L, TRUE)
                                    ELSE Type(k.out[i].dt, 0, FALSE)],
                L, k.thr)

\* gm_select: the selected kernel and its ApplySpec, or a selection error that
\* leaves the ApplySpec empty.
gm_select(name, types, n) ==
  LET cands == Lookup(name)
      c     == Pick(cands, types, n)
  IN  IF Len(cands) = 0
        THEN [err |-> "UnknownFunction", kernel |-> NoKernel, spec |-> ndt_apply_spec_empty]
      ELSE IF c = 0
        THEN [err |-> "NoMatchingKernel", kernel |-> NoKernel, spec |-> ndt_apply_spec_empty]
      ELSE [err |-> "none", kernel |-> cands[c], spec |-> SpecFor(cands[c], types, n)]

ndt_is_concrete(t) == t.conc

ndt_is_abstract(t) == ~t.conc

(* ------------------------------------------------------------------ *)
(* Kernel application (kernels, gm_apply, gm_apply_thread): library   *)
(* code, modelled from section 4.4 of the specification.              *)
(* ------------------------------------------------------------------ *)

RECURSIVE SumInputs(_, _, _)
SumInputs(stk, n, u) ==
  IF n = 0 THEN 0 ELSE InputAt(stk[n - 1], u) + SumInputs(stk, n - 1, u)

\* The value a kernel writes to output i for outer unit u: a function of that
\* unit's input slice only.
KernelFn(k, stk, i, u) == 1 + i + k.id * SumInputs(stk, k.nin, u)

\* One kernel invocation on unit u: every output's slice u is written.
WriteUnit(data, k, stk, u) ==
  [i \in DOMAIN data |-> [data[i] EXCEPT ![u] = KernelFn(k, stk, i, u)]]

\* Sequential mode: units lo, lo+1, .. in increasing order, stopping at hi or at
\* the unit on which the kernel fails (bad; -1 if it fails on none).
RECURSIVE SeqUnits(_, _, _, _, _, _)
SeqUnits(data, k, stk, lo, hi, bad) ==
  IF lo >= hi \/ lo = bad THEN data
  ELSE SeqUnits(WriteUnit(data, k, stk, lo), k, stk, lo + 1, hi, bad)

\* gm_apply: the output data and the status (0, or -1 when the kernel failed).
gm_apply(data, k, stk, outer, bad) ==
  [data |-> SeqUnits(data, k, stk, 0, outer, bad),
   status |-> IF bad \in 0..(outer - 1) THEN -1 ELSE 0]

\* Threaded mode is used when more than one thread is allowed and the kernel
\* permits it; the number of workers is at most max_threads and at most one
\* per outer unit.
UseThreads(flags, outer, maxthr) == flags /\ maxthr > 1 /\ outer > 1

NumWorkers(outer, maxthr) == Min(maxthr, outer)

\* A range start that leaves the remainder out.
RangeLo_NoRemainder(outer, n, w) == w * (outer \div n)

\* The range of worker w (from 0) of n: contiguous, near-equal sizes, the
\* remainder distributed to the first ranges.
RangeLo(outer, n, w) == w * (outer \div n) + Min(w, outer % n)

RangeHi(outer, n, w) ==
  RangeLo(outer, n, w) + (outer \div n) + (IF w < outer % n THEN 1 ELSE 0)

Worker(lo, hi) == [lo |-> lo, hi |-> hi, next |-> lo, busy |-> FALSE]

Partition(outer, n) ==
  [w \in 0..(n - 1) |-> Worker(RangeLo(outer, n, w), RangeHi(outer, n, w))]

\* A worker is finished when it runs no unit and will start no further one.
WorkerDone(wk, fl) == ~wk.busy /\ (wk.next >= wk.hi \/ fl)

\* The join of gm_apply_thread: every dispatched worker has finished.
AllJoined(wks, fl) == \A w \in DOMAIN wks : WorkerDone(wks[w], fl)

\* Dispatch that does not look at the failure flag.
MayDispatch_IgnoresFailure(wk, fl) == ~wk.busy /\ wk.next < wk.hi

\* A worker may begin its next unit only while no failure has been observed.
MayDispatch(wk, fl) == ~wk.busy /\ wk.next < wk.hi /\ ~fl

(* ------------------------------------------------------------------ *)
(* State.                                                             *)
(* ------------------------------------------------------------------ *)

VARIABLES
  max_threads,   \* static int64_t max_threads
  have_pthread,  \* whether the build defines HAVE_PTHREAD_H
  pc,            \* position in Gumath_GufuncObject_call ("idle": no call runs;
                 \* "done": the call has ended, its caller has not gone on yet)
  name,          \* self_p->name
  argv,          \* the caller's arguments (the caller's buffers)
  argc,          \* argc, which is also nin
  stack,         \* xnd_t stack[NDT_MAX_ARGS]
  in_types,      \* const ndt_t *in_types[NDT_MAX_ARGS]
  kernel,        \* gm_kernel_t kernel (NoKernel: kernel.set == NULL)
  spec,          \* ndt_apply_spec_t spec
  result,        \* VALUE result[NDT_MAX_ARGS]: "uninit", "NULL" or "obj"
  i,             \* the loop index i
  obuf,          \* the buffer of each output: ownership state, times released
  odata,         \* the data of each output buffer, per outer unit (0: not written)
  tfree,         \* how often each type descriptor of the ApplySpec was freed
  workers,       \* the worker threads of a threaded apply
  failed,        \* a worker's kernel invocation has failed
  kbad,          \* the outer unit on which the kernel fails (-1: none)
  hook,          \* instrumentation: library calls made by the current call
  ub,            \* undefined behaviour the current call has run into
  ret            \* what the last method call gave its caller

vars == <<max_threads, have_pthread, pc, name, argv, argc, stack, in_types, kernel,
          spec, result, i, obuf, odata, tfree, workers, failed, kbad, hook, ub, ret>>

callvars == <<name, argv, argc, stack, in_types, kernel, spec, result, i, obuf,
              odata, tfree, workers, failed, kbad, hook, ub>>

\* What a method gives its caller.  op: the method ("call", "get_max_threads",
\* "set_max_threads"); arg: its integer argument; kind: "none" (nothing yet),
\* "value" or "raise"; err: the error raised; shape of a value: "nil", "single",
\* "tuple", "int" or "undefined"; vals: the entries of the result list; num: an
\* integer value.
Ret(op, arg, kind, err, shape, vals, num) ==
  [op |-> op, arg |-> arg, kind |-> kind, err |-> err, shape |-> shape,
   vals |-> vals, num |-> num]

NoRet == Ret("none", 0, "none", "none", "nil", <<>>, 0)

Running == Ret("call", 0, "none", "none", "nil", <<>>, 0)

Raise(err) == Ret("call", 0, "raise", err, "nil", <<>>, 0)

\* An output buffer.  st: "none" (does not exist), "wrapped" (held by a Ruby
\* object that result[] refers to), "raw" (produced by the kernel, held by its
\* stack slot only), "released" (freed), and once the call has ended:
\* "returned" (handed to the caller), "garbage" (held by a Ruby object nothing
\* refers to: left to the garbage collector), "leaked" (raw, nothing refers to it).
OBuf(st, rel) == [st |-> st, rel |-> rel]

NoBuf == OBuf("none", 0)

NoHook == [select |-> 0, inspected |-> 0, alloc |-> 0, apply |-> 0]

NoWorkers == Arr(<<>>)

NoTFree == [b |-> Arr(<<>>), o |-> Arr(<<>>)]

EmptyStack == [j \in 0..(NDT_MAX_ARGS - 1) |-> Uninit]

EmptyTypes == [j \in 0..(NDT_MAX_ARGS - 1) |-> NoType]

EmptyResult == [j \in 0..(NDT_MAX_ARGS - 1) |-> "uninit"]

EmptyBufs == [j \in 0..(NDT_MAX_ARGS - 1) |-> NoBuf]

EmptyData == Arr(<<>>)

\* static int64_t max_threads = 1, then init_max_threads(): Etc.nprocessors.
Init ==
  /\ max_threads \in 1..MaxThreads
  /\ have_pthread \in BOOLEAN
  /\ pc = "idle"
  /\ name = "add"
  /\ argv = Arr(<<>>)
  /\ argc = 0
  /\ stack = EmptyStack
  /\ in_types = EmptyTypes
  /\ kernel = NoKernel
  /\ spec = ndt_apply_spec_empty
  /\ result = EmptyResult
  /\ i = 0
  /\ obuf = EmptyBufs
  /\ odata = EmptyData
  /\ tfree = NoTFree
  /\ workers = NoWorkers
  /\ failed = FALSE
  /\ kbad = -1
  /\ hook = NoHook
  /\ ub = {}
  /\ ret = NoRet

(* ------------------------------------------------------------------ *)
(* Singleton methods.                                                 *)
(* ------------------------------------------------------------------ *)

\* Gumath_s_get_max_threads: INT2NUM(max_threads).
Gumath_s_get_max_threads ==
  /\ pc = "idle"
  /\ ret' = Ret("get_max_threads", 0, "value", "none", "int", <<>>, max_threads)
  /\ UNCHANGED <<max_threads, have_pthread, pc>>
  /\ UNCHANGED callvars

ThreadArgs == (-1)..MaxThreads

\* The effect of Gumath_s_set_max_threads(threads) on max_threads: the body is
\* empty, the static is not written.
SetMaxThreadsValue(old, threads) == old

\* What Gumath_s_set_max_threads(threads) gives its caller: the body is empty,
\* no exception is raised and control runs off the end of a function declared
\* to return VALUE: the value is undefined.
SetMaxThreadsRet(threads) ==
  Ret("set_max_threads", threads, "value", "none", "undefined", <<>>, 0)

Gumath_s_set_max_threads(threads) ==
  /\ pc = "idle"
  /\ max_threads' = SetMaxThreadsValue(max_threads, threads)
  /\ ret' = SetMaxThreadsRet(threads)
  /\ UNCHANGED <<have_pthread, pc>>
  /\ UNCHANGED callvars

(* ------------------------------------------------------------------ *)
(* Gumath_GufuncObject_call.                                          *)
(* ------------------------------------------------------------------ *)

\* Leaving the function (rb_raise or return): its frame is gone.  A buffer
\* whose Ruby object is among the returned results is the caller's; a wrapped
\* buffer that is not returned is garbage; a raw buffer is referred to by
\* nothing.
Leave(bufs, res, returned) ==
  [j \in DOMAIN bufs |->
     IF bufs[j].st = "wrapped"
       THEN OBuf(IF returned /\ j < Len(res) /\ res[j + 1] = "obj"
                   THEN "returned" ELSE "garbage", bufs[j].rel)
     ELSE IF bufs[j].st = "raw" THEN OBuf("leaked", bufs[j].rel)
     ELSE bufs[j]]

\* The argument of argv at position j, its buffer holding (u+1)*10^j.
ArgAt(args, j) ==
  IF args[j].isxnd
    THEN [args[j] EXCEPT !.xnd = Xnd("in", args[j].xnd.type, Pow10(j), j)]
    ELSE args[j]

\* rb_xnd_check_type.
rb_xnd_check_type(v) == v.isxnd

\* The index of the last argument that is not an XND object (n: there is none).
RECURSIVE FirstNotXnd_Last(_, _, _)
FirstNotXnd_Last(args, j, n) ==
  IF j >= n THEN n
  ELSE LET rest == FirstNotXnd_Last(args, j + 1, n)
       IN  IF rest < n THEN rest
           ELSE IF ~args[j].isxnd THEN j ELSE n

\* The index of the first argument that is not an XND object (n: there is none).
RECURSIVE FirstNotXnd(_, _, _)
FirstNotXnd(args, j, n) ==
  IF j >= n THEN n
  ELSE IF ~rb_xnd_check_type(args[j]) THEN j
  ELSE FirstNotXnd(args, j + 1, n)

\* The arity check with its bound off by one.
TooManyArgs_OffByOne(n) == n > NDT_MAX_ARGS + 1

\* The arity check of line 141.
TooManyArgs(n) == n > NDT_MAX_ARGS

\* Lines 139-152: the arity check, then the loop that checks each argument and
\* copies its xnd_t and its type.
CallEnter(fname, args) ==
  LET n    == Cardinality(DOMAIN args)
      av   == [j \in DOMAIN args |-> ArgAt(args, j)]
      stop == FirstNotXnd(av, 0, n)
      seen == Min(stop + 1, n)
  IN  /\ pc = "idle"
      /\ name' = fname
      /\ argv' = av
      /\ argc' = n
      /\ kernel' = NoKernel
      /\ spec' = ndt_apply_spec_empty
      /\ result' = EmptyResult
      /\ i' = 0
      /\ obuf' = EmptyBufs
      /\ odata' = EmptyData
      /\ tfree' = NoTFree
      /\ workers' = NoWorkers
      /\ failed' = FALSE
      /\ kbad' = -1
      /\ ub' = {}
      /\ IF TooManyArgs(n)
           THEN /\ ret' = Raise("TooManyArguments")
                /\ hook' = NoHook
                /\ stack' = EmptyStack
                /\ in_types' = EmptyTypes
                /\ pc' = "done"
           ELSE /\ hook' = [NoHook EXCEPT !.inspected = seen]
                /\ stack' = [j \in 0..(NDT_MAX_ARGS - 1) |->
                               IF j < stop THEN av[j].xnd ELSE Uninit]
                /\ in_types' = [j \in 0..(NDT_MAX_ARGS - 1) |->
                                  IF j < stop THEN av[j].xnd.type ELSE NoType]
                /\ IF stop < n
                     THEN ret' = Raise("ArgsMustBeXnd") /\ pc' = "done"
                     ELSE ret' = Running /\ pc' = "select"
      /\ UNCHANGED <<max_threads, have_pthread>>

\* The selection result taken without the check for a failure.
SelectFailed_Ignored(sel) == FALSE

\* Line 157: kernel.set == NULL.
SelectFailed(sel) == sel.err # "none"

\* The broadcast rewrite stopping one input short.
Rewrite_SkipsLast(stk, sp, n) ==
  [j \in DOMAIN stk |->
     IF sp.nbroadcast > 0 /\ j < n - 1
       THEN [stk[j] EXCEPT !.type = sp.broadcast[j]]
       ELSE stk[j]]

\* Lines 162-166: the types of the call's copies of the inputs after selection.
Rewrite(stk, sp, n) ==
  [j \in DOMAIN stk |->
     IF sp.nbroadcast > 0 /\ j < n
       THEN [stk[j] EXCEPT !.type = sp.broadcast[j]]
       ELSE stk[j]]

\* The broadcast rewrite writing through to the caller's buffers, as it would
\* if the stack held references to them instead of copies.
CallerAfterRewrite_Aliased(av, sp, n) ==
  [j \in DOMAIN av |->
     IF sp.nbroadcast > 0 /\ j < n
       THEN [av[j] EXCEPT !.xnd.type = sp.broadcast[j]]
       ELSE av[j]]

\* Lines 150 and 162-166: the caller's buffers after the broadcast rewrite.
\* stack[i] is a copy of the caller's xnd_t (line 150), so the rewrite of
\* stack[i].type leaves the caller's buffer as it was.
CallerAfterRewrite(av, sp, n) == av

\* Lines 154-166: gm_select; on failure seterr and raise_error; otherwise the
\* broadcast rewrite of the stack.
SelectStep ==
  LET sel == gm_select(name, in_types, argc)
  IN  /\ pc = "select"
      /\ hook' = [hook EXCEPT !.select = @ + 1]
      /\ IF SelectFailed(sel)
           THEN /\ ret' = Raise(sel.err)
                /\ pc' = "done"
                /\ obuf' = Leave(obuf, <<>>, FALSE)
                /\ UNCHANGED <<kernel, spec, stack, tfree, odata, argv>>
           ELSE /\ kernel' = sel.kernel
                /\ argv' = CallerAfterRewrite(argv, sel.spec, argc)
                /\ spec' = sel.spec
                /\ tfree' = [b |-> [j \in DOMAIN sel.spec.broadcast |-> 0],
                             o |-> [j \in DOMAIN sel.spec.out |-> 0]]
                /\ stack' = Rewrite(stack, sel.spec, argc)
                /\ odata' = [j \in 0..(sel.spec.nout - 1) |->
                               [u \in 0..(sel.spec.outer_dims - 1) |-> 0]]
                /\ pc' = "plan"
                /\ UNCHANGED <<ret, obuf>>
      /\ i' = 0
      /\ UNCHANGED <<max_threads, have_pthread, name, argc, in_types, result,
                     workers, failed, kbad, ub>>

\* A write to slot j of an array of NDT_MAX_ARGS elements; a slot outside the
\* array is not written here (the write is undefined behaviour).
Store(arr, j, v) == IF j \in DOMAIN arr THEN [arr EXCEPT ![j] = v] ELSE arr

Overflow(j) == IF j >= NDT_MAX_ARGS THEN {"array_overflow"} ELSE {}

\* ndt_apply_spec_clear: every broadcast type and every output type is freed
\* and the ApplySpec is empty again.
ClearedFree(tf) == [b |-> [j \in DOMAIN tf.b |-> tf.b[j] + 1],
                    o |-> [j \in DOMAIN tf.o |-> tf.o[j] + 1]]

\* The allocation failure path freeing the buffers allocated so far itself,
\* although their Ruby objects own them.
AllocFailBufs_Releases(bufs, k) ==
  [j \in DOMAIN bufs |->
     IF j < k /\ bufs[j].st = "wrapped" THEN OBuf("released", bufs[j].rel + 1)
     ELSE bufs[j]]

\* Lines 171-174: what the allocation failure path does to the output buffers
\* before rb_raise: nothing.
AllocFailBufs(bufs, k) == bufs

\* The slot of output x taken without the offset of the inputs.
PlanSlot_NoOffset(n, x) == x

\* Lines 176 and 180: the stack slot of output x of a call with n inputs.
PlanSlot(n, x) == n + x

\* Lines 168-182, one iteration of the output planning loop: a concrete output
\* is allocated now (rb_xnd_empty_from_type: x == NULL on failure), an abstract
\* one gets the empty marker and xnd_error.
PlanStep ==
  /\ pc = "plan"
  /\ i < spec.nout
  /\ IF ndt_is_concrete(spec.out[i])
       THEN \E ok \in BOOLEAN :
              /\ hook' = [hook EXCEPT !.alloc = @ + 1]
              /\ IF ~ok
                   THEN /\ tfree' = ClearedFree(tfree)
                        /\ spec' = ndt_apply_spec_empty
                        /\ ret' = Raise("NoMemError")
                        /\ obuf' = Leave(AllocFailBufs(obuf, i), <<>>, FALSE)
                        /\ pc' = "done"
                        /\ UNCHANGED <<result, stack, i, ub>>
                   ELSE /\ result' = Store(result, i, "obj")
                        /\ obuf' = Store(obuf, i, OBuf("wrapped", 0))
                        /\ stack' = Store(stack, PlanSlot(argc, i),
                                          Xnd("out", spec.out[i], 0, i))
                        /\ ub' = ub \cup Overflow(PlanSlot(argc, i))
                        /\ i' = i + 1
                        /\ UNCHANGED <<tfree, spec, ret, pc>>
       ELSE /\ result' = Store(result, i, "NULL")
            /\ stack' = Store(stack, PlanSlot(argc, i), xnd_error)
            /\ ub' = ub \cup Overflow(PlanSlot(argc, i))
            /\ i' = i + 1
            /\ UNCHANGED <<hook, tfree, spec, ret, obuf, pc>>
  /\ UNCHANGED <<max_threads, have_pthread, name, argv, argc, in_types, kernel,
                 odata, workers, failed, kbad>>

\* The outer units a kernel may fail on: none (-1) or one of them.
BadUnits(outer) == {-1} \cup 0..(outer - 1)

\* The abstract outputs after the kernel has run: with produced, each is a new
\* buffer held by its stack slot only.
KernelBufs(bufs, sp, produced) ==
  [j \in DOMAIN bufs |->
     IF produced /\ j < sp.nout /\ ndt_is_abstract(sp.out[j])
       THEN OBuf("raw", 0) ELSE bufs[j]]

KernelStack(stk, sp, n, produced) ==
  [j \in DOMAIN stk |->
     IF produced /\ j >= n /\ j - n < sp.nout /\ ndt_is_abstract(sp.out[j - n])
       THEN Xnd("out", Type(sp.out[j - n].dt, sp.outer_dims, TRUE), 0, j - n)
       ELSE stk[j]]

\* The outer extent passed to the apply engine one short.
ApplyOuter_Short == spec.outer_dims - 1

\* Lines 185-186 and 191: what the handler passes to the apply engine.
ApplyOuter == spec.outer_dims

ApplyFlags == spec.flags

ApplyMaxThreads == max_threads

\* Lines 186-189 and 191-194: a negative status is surfaced with seterr and
\* raise_error; nothing is released and the ApplySpec is not cleared.
ApplyFailBufs(bufs) == bufs

ApplyFailFree(tf) == tf

\* The handler after gm_apply or gm_apply_thread has returned status.  On a
\* failure the kernel may or may not have produced its abstract outputs.
ApplyReturn(status) ==
  IF status < 0
    THEN \E produced \in BOOLEAN :
           /\ ret' = Raise("ApplyError")
           /\ obuf' = Leave(ApplyFailBufs(KernelBufs(obuf, spec, produced)), <<>>, FALSE)
           /\ stack' = KernelStack(stack, spec, argc, produced)
           /\ tfree' = ApplyFailFree(tfree)
           /\ pc' = "done"
    ELSE /\ obuf' = KernelBufs(obuf, spec, TRUE)
         /\ stack' = KernelStack(stack, spec, argc, TRUE)
         /\ pc' = "resolve"
         /\ UNCHANGED <<ret, tfree>>

\* Lines 184-195: the call of the apply engine.  With HAVE_PTHREAD_H it is
\* gm_apply_thread, which starts its workers or degrades to the sequential
\* mode; without, gm_apply.
ApplyStep ==
  /\ pc = "plan"
  /\ i >= spec.nout
  /\ hook' = [hook EXCEPT !.apply = @ + 1]
  /\ i' = 0
  /\ \E bad \in BadUnits(spec.outer_dims) :
       /\ kbad' = bad
       /\ IF have_pthread /\ UseThreads(ApplyFlags, ApplyOuter, ApplyMaxThreads)
            THEN /\ workers' = Partition(ApplyOuter, NumWorkers(ApplyOuter, ApplyMaxThreads))
                 /\ failed' = FALSE
                 /\ pc' = "threads"
                 /\ UNCHANGED <<odata, obuf, stack, tfree, ret>>
            ELSE LET r == gm_apply(odata, kernel, stack, spec.outer_dims, bad)
                 IN  /\ odata' = r.data
                     /\ ApplyReturn(r.status)
                     /\ UNCHANGED <<workers, failed>>
  /\ UNCHANGED <<max_threads, have_pthread, name, argv, argc, in_types, kernel,
                 spec, result, ub>>

\* A worker begins the next unit of its range.
WorkerStart(w) ==
  /\ pc = "threads"
  /\ MayDispatch(workers[w], failed)
  /\ workers' = [workers EXCEPT ![w].busy = TRUE]
  /\ UNCHANGED <<max_threads, have_pthread, pc, name, argv, argc, stack, in_types,
                 kernel, spec, result, i, obuf, odata, tfree, failed, kbad, hook,
                 ub, ret>>

\* A worker completes the unit it runs: the kernel fails on it, or writes the
\* slice of every output.
WorkerFinish(w) ==
  /\ pc = "threads"
  /\ workers[w].busy
  /\ IF workers[w].next = kbad
       THEN /\ failed' = TRUE
            /\ workers' = [workers EXCEPT ![w].busy = FALSE]
            /\ UNCHANGED odata
       ELSE /\ odata' = WriteUnit(odata, kernel, stack, workers[w].next)
            /\ workers' = [workers EXCEPT ![w].busy = FALSE, ![w].next = @ + 1]
            /\ UNCHANGED failed
  /\ UNCHANGED <<max_threads, have_pthread, pc, name, argv, argc, stack, in_types,
                 kernel, spec, result, i, obuf, tfree, kbad, hook, ub, ret>>

\* gm_apply_thread joins its workers and returns; the handler goes on.
ApplyJoin ==
  /\ pc = "threads"
  /\ AllJoined(workers, failed)
  /\ ApplyReturn(IF failed THEN -1 ELSE 0)
  /\ UNCHANGED <<max_threads, have_pthread, name, argv, argc, in_types, kernel,
                 spec, result, i, odata, workers, failed, kbad, hook, ub>>

\* xnd_del_buffer(&stk[slot], XND_OWN_ALL): the buffer the slot views is
\* released; xnd_error and a slot that holds no view release nothing.
xnd_del_buffer(bufs, stk, slot) ==
  IF slot \in DOMAIN stk /\ stk[slot].k = "out"
    THEN [bufs EXCEPT ![stk[slot].idx] = OBuf("released", @.rel + 1)]
    ELSE bufs

\* Line 203: the index the cleanup loop starts from.
CleanupStart(x) == x + x

\* ndt_is_abstract of a descriptor that may have been freed: a read of freed
\* memory gives the undefined value stale.
ReadAbstract(sp, tf, k, stale) == IF tf.o[k] > 0 THEN stale ELSE ndt_is_abstract(sp.out[k])

\* Lines 203-207: the cleanup loop from index k.
RECURSIVE Cleanup(_, _, _, _, _, _, _)
Cleanup(bufs, stk, sp, tf, n, k, stale) ==
  IF k >= sp.nout THEN bufs
  ELSE Cleanup(IF ReadAbstract(sp, tf, k, stale)
                 THEN xnd_del_buffer(bufs, stk, n + k) ELSE bufs,
               stk, sp, tf, n, k + 1, stale)

\* xnd_del_buffer(&stk[slot], XND_OWN_ALL) on a slot that views a caller's
\* buffer: that buffer is released.
xnd_del_input(av, stk, slot) ==
  IF slot \in DOMAIN stk /\ stk[slot].k = "in"
    THEN [av EXCEPT ![stk[slot].idx].rel = @ + 1]
    ELSE av

\* Lines 203-207: what the cleanup loop from index k does to the caller's
\* buffers.
RECURSIVE CleanupInputs(_, _, _, _, _, _, _)
CleanupInputs(av, stk, sp, tf, n, k, stale) ==
  IF k >= sp.nout THEN av
  ELSE CleanupInputs(IF ReadAbstract(sp, tf, k, stale)
                       THEN xnd_del_input(av, stk, n + k) ELSE av,
                     stk, sp, tf, n, k + 1, stale)

\* Undefined behaviour of the cleanup loop from index k0: a read of a freed
\* type descriptor, a second release of a buffer.
CleanupUB(bufs, stk, sp, tf, n, k0) ==
  (IF \E k \in k0..(sp.nout - 1) : tf.o[k] > 0 THEN {"read_freed_type"} ELSE {})
    \cup
  (IF \E k \in k0..(sp.nout - 1) :
        /\ ndt_is_abstract(sp.out[k]) /\ tf.o[k] = 0
        /\ (n + k) \in DOMAIN stk /\ stk[n + k].k = "out"
        /\ bufs[stk[n + k].idx].st = "released"
     THEN {"double_release"} ELSE {})

\* rb_xnd_from_xnd(&stk[slot]): the buffer is wrapped in a new Ruby object, or,
\* when that fails, released by the callee.  The callee owns the buffer either
\* way: line 201 overwrites the slot with xnd_error before x is looked at.
rb_xnd_from_xnd(bufs, b, ok) ==
  IF ok THEN [bufs EXCEPT ![b] = OBuf("wrapped", @.rel)]
        ELSE [bufs EXCEPT ![b] = OBuf("released", @.rel + 1)]

\* Lines 197-211, one iteration of the resolution loop.  When x == NULL the
\* handler runs the cleanup loop, stores NULL in result[i] and goes on with the
\* next output: it neither raises nor returns.
ResolveStep ==
  /\ pc = "resolve"
  /\ i < spec.nout
  /\ IF ndt_is_abstract(spec.out[i])
       THEN \E ok \in BOOLEAN, stale \in BOOLEAN :
              LET tf   == [tfree EXCEPT !.o[i] = @ + 1]
                  b    == stack[argc + i].idx
                  wrap == rb_xnd_from_xnd(obuf, b, ok)
                  stk  == Store(stack, argc + i, xnd_error)
                  x    == IF ok THEN "obj" ELSE "NULL"
              IN  /\ tfree' = tf
                  /\ stack' = stk
                  /\ result' = Store(result, i, x)
                  /\ obuf' = IF ok THEN wrap
                             ELSE Cleanup(wrap, stk, spec, tf, argc, CleanupStart(i), stale)
                  /\ argv' = IF ok THEN argv
                             ELSE CleanupInputs(argv, stk, spec, tf, argc,
                                                CleanupStart(i), stale)
                  /\ ub' = ub
                       \cup (IF obuf[b].st = "released" THEN {"use_after_release"} ELSE {})
                       \cup (IF ok THEN {}
                             ELSE CleanupUB(wrap, stk, spec, tf, argc, CleanupStart(i)))
                  /\ i' = i + 1
                  /\ UNCHANGED <<pc, ret>>
       ELSE /\ i' = i + 1
            /\ UNCHANGED <<tfree, stack, result, obuf, ub, pc, ret, argv>>
  /\ UNCHANGED <<max_threads, have_pthread, name, argc, in_types, kernel,
                 spec, odata, workers, failed, kbad, hook>>

\* Lines 213-217: the broadcast types are freed when there are any.
FreeBroadcast(tf, sp, n) ==
  [tf EXCEPT !.b = [j \in DOMAIN tf.b |->
                      IF sp.nbroadcast > 0 /\ j < n THEN tf.b[j] + 1 ELSE tf.b[j]]]

\* Lines 219-229: nil, the single result, or an array of the results.
ResultShape(nout) == IF nout = 0 THEN "nil" ELSE IF nout = 1 THEN "single" ELSE "tuple"

ResultList(res, nout) == [j \in 1..nout |-> res[j - 1]]

\* Lines 213-229: the end of the call.
ReturnStep ==
  /\ pc = "resolve"
  /\ i >= spec.nout
  /\ tfree' = FreeBroadcast(tfree, spec, argc)
  /\ ret' = Ret("call", 0, "value", "none", ResultShape(spec.nout),
                ResultList(result, spec.nout), 0)
  /\ obuf' = Leave(obuf, ResultList(result, spec.nout), TRUE)
  /\ pc' = "done"
  /\ UNCHANGED <<max_threads, have_pthread, name, argv, argc, stack, in_types,
                 kernel, spec, result, i, odata, workers, failed, kbad, hook, ub>>

\* Line 230: control is back in the caller, which takes the result or the
\* exception; the locals of the call are gone.
CallerResumes ==
  /\ pc = "done"
  /\ pc' = "idle"
  /\ name' = "add"
  /\ argv' = Arr(<<>>)
  /\ argc' = 0
  /\ stack' = EmptyStack
  /\ in_types' = EmptyTypes
  /\ kernel' = NoKernel
  /\ spec' = ndt_apply_spec_empty
  /\ result' = EmptyResult
  /\ i' = 0
  /\ obuf' = EmptyBufs
  /\ odata' = EmptyData
  /\ tfree' = NoTFree
  /\ workers' = NoWorkers
  /\ failed' = FALSE
  /\ kbad' = -1
  /\ hook' = NoHook
  /\ ub' = {}
  /\ ret' = NoRet
  /\ UNCHANGED <<max_threads, have_pthread>>

(* ------------------------------------------------------------------ *)
(* Specification.                                                     *)
(* ------------------------------------------------------------------ *)

Next ==
  \/ Gumath_s_get_max_threads
  \/ \E n \in ThreadArgs : Gumath_s_set_max_threads(n)
  \/ \E fname \in Names, args \in ArgLists : CallEnter(fname, args)
  \/ SelectStep
  \/ PlanStep
  \/ ApplyStep
  \/ \E w \in DOMAIN workers : WorkerStart(w)
  \/ \E w \in DOMAIN workers : WorkerFinish(w)
  \/ ApplyJoin
  \/ ResolveStep
  \/ ReturnStep
  \/ CallerResumes

Spec == Init /\ [][Next]_vars

(* ------------------------------------------------------------------ *)
(* Properties.                                                        *)
(* ------------------------------------------------------------------ *)

Outs == 0..(NDT_MAX_ARGS - 1)

SelectionErrors == {"UnknownFunction", "NoMatchingKernel"}

\* C1: a call that has ended either gave its caller exactly nout results, nout
\* the number of declared outputs of the selected kernel, in order, each one an
\* object holding a live buffer, or raised an error and handed no buffer to the
\* caller; a result list never holds a NULL entry.
C1_AllOrNothing ==
  (pc = "done" /\ ret.op = "call") =>
     \/ /\ ret.kind = "value"
        /\ Len(ret.vals) = kernel.nout
        /\ \A j \in 1..Len(ret.vals) :
             ret.vals[j] = "obj" /\ obuf[j - 1] = OBuf("returned", 0)
     \/ /\ ret.kind = "raise"
        /\ \A j \in Outs : obuf[j].st # "returned"

\* C2: when the kernel application fails, the caller gets the apply error and
\* no result, and no output buffer of the call is left unreleased.  Stated in
\* its weakest reading: a buffer held by a Ruby object that nothing refers to
\* any more (left to the garbage collector) counts as released.
C2_ApplyFailureReleases ==
  (pc = "done" /\ hook.apply > 0 /\ ret.kind = "raise") =>
     /\ ret.err = "ApplyError"
     /\ ret.vals = <<>>
     /\ \A j \in Outs : obuf[j].st \in {"none", "released", "garbage"}

\* The buffers of the call in state st.
InState(st) == {j \in Outs : obuf[j].st = st}

C4_SpecReleased ==
  (pc = "done" /\ ret.op = "call") =>
     /\ \A j \in DOMAIN tfree.b : tfree.b[j] = 1
     /\ \A j \in DOMAIN tfree.o : ~kernel.out[j].conc => tfree.o[j] = 1

\* C5: a call with more than NDT_MAX_ARGS arguments ends at once with the
\* too-many-arguments error: gm_select has not been called, no argument has
\* been inspected or copied, no buffer has been allocated, no kernel applied.
C5_ArityCheckedFirst ==
  argc > NDT_MAX_ARGS =>
     /\ pc = "done"
     /\ ret = Raise("TooManyArguments")
     /\ hook = NoHook
     /\ stack = EmptyStack /\ in_types = EmptyTypes
     /\ obuf = EmptyBufs
     /\ kernel = NoKernel /\ spec = ndt_apply_spec_empty

\* C5 witness: a call with NDT_MAX_ARGS + 1 arguments has ended.
C5_Witness == pc = "done" /\ argc = NDT_MAX_ARGS + 1 /\ ret.kind = "raise"

\* C6: once selection has failed, the call has ended with the selection error
\* and without side effects: no output buffer exists, nothing was allocated,
\* the kernel was not applied, the ApplySpec is empty and nothing is returned.
C6_SelectionFailureNoEffects ==
  (hook.select > 0 /\ kernel = NoKernel) =>
     /\ pc = "done"
     /\ ret.kind = "raise" /\ ret.err \in SelectionErrors /\ ret.vals = <<>>
     /\ ret.err = gm_select(name, in_types, argc).err
     /\ hook.alloc = 0 /\ hook.apply = 0
     /\ obuf = EmptyBufs /\ odata = EmptyData
     /\ spec = ndt_apply_spec_empty /\ tfree = NoTFree

\* C6 witness: a call on a name with kernels, none of which unifies, has ended.
C6_Witness ==
  /\ pc = "done" /\ ret.err = "NoMatchingKernel"
  /\ argc = 2 /\ Len(Lookup(name)) > 1

\* C7: set_max_threads(n) with n < 1 raises the configuration error and leaves
\* max_threads, the value get_max_threads returns, as it was.
C7_ThreadCountGuard ==
  [][\A n \in ThreadArgs :
       (n < 1 /\ Gumath_s_set_max_threads(n)) =>
          /\ ret'.kind = "raise" /\ ret'.err = "ConfigError"
          /\ max_threads' = max_threads]_vars

\* The output data of the sequential mode for the inputs of the call.
SequentialData ==
  SeqUnits([j \in 0..(spec.nout - 1) |-> [u \in 0..(spec.outer_dims - 1) |-> 0]],
           kernel, [j \in 0..(argc - 1) |-> stack[j]], 0, spec.outer_dims, -1)

\* C8: when the kernel application has succeeded, the output buffers hold what
\* the sequential mode writes for the same inputs, whatever max_threads is and
\* however the workers were interleaved.
C8_ThreadedEqualsSequential ==
  pc = "resolve" => odata = SequentialData

\* C8 witness: a threaded apply over the longest outer extent, by more than one
\* worker, has succeeded, every worker having run its whole range.
C8_Witness ==
  /\ pc = "resolve"
  /\ Cardinality(DOMAIN workers) > 1
  /\ spec.outer_dims = MaxLen
  /\ \A w \in DOMAIN workers : workers[w].next = workers[w].hi

\* C9: in a threaded apply, once a kernel invocation has failed no worker begins
\* a further unit; the engine returns to the handler only when every worker
\* has finished, so no worker runs a unit once the handler has gone on to
\* surface the error.
C9_NoDispatchAfterFailure ==
  /\ [][(pc = "threads" /\ failed) =>
          \A w \in DOMAIN workers : workers'[w].busy => workers[w].busy]_vars
  /\ [](pc # "threads" => \A w \in DOMAIN workers : WorkerDone(workers[w], failed))

\* C9 witness: a threaded apply has failed and the error has been surfaced
\* while a worker had units of its range left that were never begun.
C9_Witness ==
  /\ pc = "done" /\ ret.err = "ApplyError"
  /\ Cardinality(DOMAIN workers) > 1
  /\ \E w \in DOMAIN workers : workers[w].next < workers[w].hi /\ workers[w].next # kbad

\* C10: the selected kernel is the first candidate, in registration order, of
\* the overload set of the name whose signature unifies with the input types;
\* selection fails with NoMatchingKernel exactly when the overload set is not
\* empty and no candidate unifies.
C10_FirstUnifyingKernel ==
  LET cands    == Lookup(name)
      fits(c)  == Unify(cands[c], in_types, argc) # "none"
  IN  /\ kernel # NoKernel =>
           \E c \in 1..Len(cands) :
              /\ cands[c] = kernel
              /\ fits(c)
              /\ \A d \in 1..(c - 1) : ~fits(d)
      /\ (pc = "done" /\ hook.select > 0) =>
           (ret.err = "NoMatchingKernel"
              <=> (Len(cands) > 0 /\ \A c \in 1..Len(cands) : ~fits(c)))

\* C10 witness: two candidates unify with the input types and the first one
\* has been selected.
C10_Witness ==
  /\ pc = "plan" /\ kernel.id = 1
  /\ Unify(Lookup(name)[2], in_types, argc) # "none"

\* C11: while a call runs, the caller's buffers are neither released nor
\* modified, on whatever path: the call works on its own copies of the input
\* handles, and the broadcast rewrite changes the copies only.
C11_InputsUntouched ==
  [][(pc # "idle" /\ pc' # "idle") =>
       /\ argv' = argv
       /\ \A j \in DOMAIN argv' : argv'[j].rel = 0]_vars

\* C11 witness: a call has ended after a broadcast rewrite that gave the call's
\* copy of an input a type other than the type of the caller's buffer.
C11_Witness ==
  /\ pc = "done" /\ spec.nbroadcast > 0
  /\ \E j \in 0..(argc - 1) : stack[j].type # argv[j].xnd.type

\* Resolving abstract output i has failed in this step: rb_xnd_from_xnd gave
\* NULL.
ResolveFails ==
  /\ pc = "resolve" /\ i < spec.nout /\ ndt_is_abstract(spec.out[i])
  /\ i' = i + 1 /\ result'[i] = "NULL"

\* C12: when resolving abstract output i fails, every abstract output k > i
\* whose kernel-produced buffer is not yet resolved is released, exactly once,
\* in that step.
C12_CleanupReleasesRest ==
  [][ResolveFails =>
       \A k \in (i + 1)..(spec.nout - 1) :
          (ndt_is_abstract(spec.out[k]) /\ obuf[k].st = "raw")
             => obuf'[k] = OBuf("released", 1)]_vars

\* C13: in the planning loop, and so once it has ended, every output j it has
\* passed is planned: a concrete one has a newly allocated buffer of the
\* output type, held by the object in result[j], and slot nin+j views it; an
\* abstract one has no buffer, result[j] is the empty marker and slot nin+j is
\* xnd_error.  The slots of the inputs are left as they were.
C13_OutputsPlanned ==
  pc = "plan" =>
     /\ \A j \in 0..(i - 1) :
          IF ndt_is_concrete(spec.out[j])
            THEN /\ obuf[j] = OBuf("wrapped", 0)
                 /\ result[j] = "obj"
                 /\ stack[argc + j] = Xnd("out", spec.out[j], 0, j)
            ELSE /\ obuf[j] = NoBuf
                 /\ result[j] = "NULL"
                 /\ stack[argc + j] = xnd_error
     /\ \A j \in 0..(argc - 1) : stack[j].k = "in"
     /\ hook.alloc = Cardinality({j \in 0..(i - 1) : ndt_is_concrete(spec.out[j])})

\* C13 witness: planning has ended for a kernel with an input, a concrete and
\* an abstract output.
C13_Witness ==
  /\ pc = "plan" /\ i = spec.nout /\ argc > 0
  /\ \E j \in 0..(i - 1) : ndt_is_concrete(spec.out[j])
  /\ \E j \in 0..(i - 1) : ndt_is_abstract(spec.out[j])

\* C14: from the end of selection to the end of the resolution loop, the
\* inputs on the stack carry the broadcast types if and only if selection
\* produced any (nbroadcast > 0); when it did, every one of the argc inputs
\* carries broadcast[j], and when it did not, every input keeps the type of
\* the caller's argument.
C14_BroadcastRewrite ==
  pc \in {"plan", "threads", "resolve"} =>
     \A j \in 0..(argc - 1) :
        /\ stack[j].k = "in"
        /\ stack[j].type = IF spec.nbroadcast > 0
                              THEN spec.broadcast[j]
                              ELSE argv[j].xnd.type

\* C14 witness: a call with two inputs that both carry their broadcast types,
\* the last of them a type that differs from the type of its argument.
C14_Witness ==
  /\ pc = "plan" /\ argc = 2 /\ spec.nbroadcast > 0
  /\ \A j \in 0..1 : stack[j].type = spec.broadcast[j]
  /\ stack[1].type # argv[1].xnd.type

\* The workers whose range holds outer unit u.
Owners(u) == {w \in DOMAIN workers : workers[w].lo <= u /\ u < workers[w].hi}

\* The ranges of a threaded apply: at most max_threads, contiguous from 0 to
\* outer_dims, sizes non-increasing and at most one apart, every unit in the
\* range of exactly one worker; a slice is written exactly when its owner has
\* passed it.
RangesPartition ==
  LET n       == Cardinality(DOMAIN workers)
      size(w) == workers[w].hi - workers[w].lo
  IN  /\ DOMAIN workers = 0..(n - 1)
      /\ n >= 1 /\ n <= max_threads
      /\ workers[0].lo = 0
      /\ workers[n - 1].hi = spec.outer_dims
      /\ \A w \in 0..(n - 2) : workers[w].hi = workers[w + 1].lo
      /\ \A w \in 0..(n - 1) :
            /\ workers[w].lo <= workers[w].next /\ workers[w].next <= workers[w].hi
            /\ \A v \in w..(n - 1) : size(w) - size(v) \in {0, 1}
      /\ \A u \in 0..(spec.outer_dims - 1) :
            /\ Cardinality(Owners(u)) = 1
            /\ \A w \in Owners(u) : \A j \in DOMAIN odata :
                  (odata[j][u] # 0) <=> (u < workers[w].next)

\* One step of a threaded apply changes at most one worker; a worker's
\* position moves only forward by one, from running the unit it leaves, which
\* is in its range and unwritten; the outputs change in that unit's slice only.
OneWriterStep ==
  (pc = "threads" /\ pc' = "threads") =>
     /\ \A w, v \in DOMAIN workers :
           (workers'[w] # workers[w] /\ workers'[v] # workers[v]) => w = v
     /\ \A w \in DOMAIN workers :
           workers'[w].next # workers[w].next =>
              /\ workers[w].busy
              /\ workers'[w].next = workers[w].next + 1
              /\ Owners(workers[w].next) = {w}
              /\ \A j \in DOMAIN odata : \A u \in DOMAIN odata[j] :
                    IF u = workers[w].next
                      THEN odata[j][u] = 0 /\ odata'[j][u] # 0
                      ELSE odata'[j][u] = odata[j][u]
     /\ (\A w \in DOMAIN workers : workers'[w].next = workers[w].next)
           => odata' = odata

\* C15: in a threaded apply the ranges of the workers are contiguous, pairwise
\* disjoint and cover exactly [0, outer_dims); there are at most max_threads
\* of them, their sizes differ by at most one with the larger first; each
\* unit is executed once, by the one worker that owns it, and a successful
\* apply has executed every unit.
C15_RangesPartitionUnits ==
  /\ [](pc = "threads" => RangesPartition)
  /\ [][OneWriterStep]_vars
  /\ [][(pc = "threads" /\ pc' = "resolve") =>
          \A w \in DOMAIN workers : workers[w].next = workers[w].hi]_vars

\* C15 witness: a threaded apply over an extent the workers do not divide,
\* with as many workers as max_threads allows, has run every unit.
C15_Witness ==
  /\ pc = "threads"
  /\ Cardinality(DOMAIN workers) = max_threads
  /\ spec.outer_dims % max_threads # 0
  /\ \A w \in DOMAIN workers : workers[w].next = workers[w].hi

\* C17: in the resolution loop nothing is used after its release and nothing
\* is released twice: the cleanup loop reads no output type descriptor that
\* the loop has deleted, and a buffer the cleanup loop has released is not
\* wrapped, read or released again by a later iteration.
C17_NoUseAfterRelease ==
  /\ ub \cap {"read_freed_type", "use_after_release", "double_release"} = {}
  /\ \A j \in DOMAIN obuf : obuf[j].rel <= 1

\* C18: once set_max_threads(n) with n >= 1 has returned without raising,
\* max_threads, the value get_max_threads returns and the handler passes to
\* gm_apply_thread, is n.
C18_SetThenGet ==
  (ret.op = "set_max_threads" /\ ret.kind # "raise" /\ ret.arg >= 1)
     => /\ max_threads = ret.arg
        /\ ApplyMaxThreads = ret.arg

\* The arguments of the call that are not XND objects.
NotXndArgs == {j \in 0..(argc - 1) : ~argv[j].isxnd}

\* C19: a call within the arity bound with an argument that is not an XND
\* object has ended with the argument error, and only such a call ends with
\* it: the arguments were checked in order up to the first that is not an XND
\* object, the ones before it were copied and none after it, gm_select was not
\* called, no buffer was allocated and no kernel applied.
C19_NonXndStopsCall ==
  /\ (argc <= NDT_MAX_ARGS /\ NotXndArgs # {}) =>
        LET f == CHOOSE j \in NotXndArgs : \A k \in NotXndArgs : j <= k
        IN  /\ pc = "done"
            /\ ret = Raise("ArgsMustBeXnd")
            /\ hook.inspected = f + 1
            /\ hook.select = 0 /\ hook.alloc = 0 /\ hook.apply = 0
            /\ \A j \in DOMAIN stack :
                  stack[j] = IF j < f THEN argv[j].xnd ELSE Uninit
            /\ kernel = NoKernel /\ spec = ndt_apply_spec_empty
            /\ obuf = EmptyBufs /\ odata = EmptyData
  /\ ret.err = "ArgsMustBeXnd" => (argc <= NDT_MAX_ARGS /\ NotXndArgs # {})

\* C19 witness: a call of two arguments, neither an XND object, has ended
\* having inspected the first only.
C19_Witness ==
  /\ pc = "done" /\ ret.err = "ArgsMustBeXnd"
  /\ argc = 2 /\ NotXndArgs = {0, 1}
  /\ hook.inspected = 1
====
